---- MODULE Spec2Model ----
(***************************************************************************)
(* OTbeat heart-rate BLE to MQTT relay (src/otbeat_mqtt_relay.py).         *)
(*                                                                         *)
(* The relay is one asyncio event loop: the main task run(), one task      *)
(* monitor_single_device per tracked sensor, and the notification          *)
(* callbacks the transport delivers between the tasks' steps.  A step of   *)
(* a task (the code between two awaits) is one action: nothing else runs   *)
(* inside it.  Strings are sequences of one-character strings, so that     *)
(* replace / slicing / lower / upper are computed as the code does.        *)
(***************************************************************************)
EXTENDS Integers, Sequences, FiniteSets, TLC

(***************************************************************************)
(* Bounds of the model.                                                    *)
(***************************************************************************)
\* sessions spawned in one run
MaxTasks == 2
\* notifications delivered in one run
MaxNotify == 2
\* devices one discovery scan returns
MaxScan == 2
\* payload length of the decoder inputs
MaxLen == 4

(***************************************************************************)
(* Configuration (config.py) and module constants.                         *)
(***************************************************************************)
RESCAN_INTERVAL == 2
MQTT_TOPIC_PREFIX == <<"p","r","e","f","i","x">>
HR_SERVICE_UUID == "0000180d-0000-1000-8000-00805f9b34fb"
OTHER_UUID == "0000180f-0000-1000-8000-00805f9b34fb"

(***************************************************************************)
(* String helpers (str.replace, slicing, lower, upper, in, str(int)).      *)
(***************************************************************************)
RECURSIVE Replace(_, _)
\* s.replace(c, "")
Replace(s, c) ==
    IF s = <<>> THEN <<>>
    ELSE IF Head(s) = c THEN Replace(Tail(s), c)
    ELSE <<Head(s)>> \o Replace(Tail(s), c)

\* s[-n:]
LastN(s, n) == IF Len(s) <= n THEN s ELSE SubSeq(s, Len(s) - n + 1, Len(s))

LowerChar(c) ==
    CASE c = "A" -> "a" [] c = "B" -> "b" [] c = "C" -> "c"
      [] c = "D" -> "d" [] c = "E" -> "e" [] c = "F" -> "f"
      [] OTHER -> c

UpperChar(c) ==
    CASE c = "a" -> "A" [] c = "b" -> "B" [] c = "c" -> "C"
      [] c = "d" -> "D" [] c = "e" -> "E" [] c = "f" -> "F"
      [] OTHER -> c

Lower(s) == [i \in 1..Len(s) |-> LowerChar(s[i])]
Upper(s) == [i \in 1..Len(s) |-> UpperChar(s[i])]

\* sub in s
Contains(sub, s) ==
    \E i \in 1..(Len(s) - Len(sub) + 1) : SubSeq(s, i, i + Len(sub) - 1) = sub

Digit(d) == <<"0","1","2","3","4","5","6","7","8","9">>[d + 1]

RECURSIVE Str(_)
\* str(n) for n >= 0
Str(n) == IF n < 10 THEN <<Digit(n)>> ELSE Str(n \div 10) \o <<Digit(n % 10)>>

(***************************************************************************)
(* Topic naming (publish_discovery, publish_heart_rate).                   *)
(***************************************************************************)
\* the suffix without the case normalisation
mac_suffix_no_lower(device_address) == LastN(Replace(device_address, ":"), 4)

\* device_address.replace(":", "")[-4:].lower()
mac_suffix(device_address) == Lower(LastN(Replace(device_address, ":"), 4))

state_topic(device_address) ==
    MQTT_TOPIC_PREFIX \o <<"_">> \o mac_suffix(device_address) \o <<"/","s","t","a","t","e">>

discovery_topic(device_address) ==
    MQTT_TOPIC_PREFIX \o <<"_">> \o mac_suffix(device_address) \o <<"/","c","o","n","f","i","g">>

device_id(device_address) == <<"o","t","b","e","a","t","_">> \o mac_suffix(device_address)

\* the dictionary json.dumps serialises
discovery_payload(device_address, device_name) ==
    [name |-> <<"O","T","b","e","a","t"," ","H","R"," ","(">>
                 \o Upper(mac_suffix(device_address)) \o <<")">>,
     state_topic |-> state_topic(device_address),
     unit_of_measurement |-> "bpm",
     unique_id |-> device_id(device_address) \o <<"_","h","r">>,
     identifiers |-> <<device_id(device_address)>>,
     device_name |-> (IF device_name = <<>> THEN <<"O","T","b","e","a","t">> ELSE device_name)
                       \o <<" ","(">> \o Upper(mac_suffix(device_address)) \o <<")">>]

(***************************************************************************)
(* Measurement decoder (parse_heart_rate).                                 *)
(***************************************************************************)
RECURSIVE BitAnd(_, _)
\* x & y on non-negative integers
BitAnd(x, y) ==
    IF x = 0 \/ y = 0 THEN 0
    ELSE (IF x % 2 = 1 /\ y % 2 = 1 THEN 1 ELSE 0) + 2 * BitAnd(x \div 2, y \div 2)

\* data[lo:hi] with 0-based bounds, clipped as Python slices are
Slice(data, lo, hi) ==
    IF lo >= Len(data) THEN <<>>
    ELSE SubSeq(data, lo + 1, IF hi > Len(data) THEN Len(data) ELSE hi)

RECURSIVE FromBytesLittle(_)
\* int.from_bytes(b, byteorder='little')
FromBytesLittle(b) == IF b = <<>> THEN 0 ELSE Head(b) + 256 * FromBytesLittle(Tail(b))

RECURSIVE FromBytesBig(_)
FromBytesBig(b) ==
    IF b = <<>> THEN 0 ELSE b[Len(b)] + 256 * FromBytesBig(SubSeq(b, 1, Len(b) - 1))

\* what a call returns or raises: exc is "none" when it returned value
Returned(v) == [exc |-> "none", value |-> v]
Raised(e) == [exc |-> e, value |-> 0]

\* the decoder with the two bytes of the 16-bit field read in the wrong order
parse_heart_rate_big_endian(data) ==
    IF Len(data) < 1 THEN Raised("IndexError")
    ELSE IF BitAnd(data[1], 1) # 0 THEN Returned(FromBytesBig(Slice(data, 1, 3)))
    ELSE IF Len(data) < 2 THEN Raised("IndexError")
    ELSE Returned(data[2])

\* data[0] of the code is data[1] here: sequences are 1-based
parse_heart_rate(data) ==
    IF Len(data) < 1 THEN Raised("IndexError")
    ELSE IF BitAnd(data[1], 1) # 0 THEN Returned(FromBytesLittle(Slice(data, 1, 3)))
    ELSE IF Len(data) < 2 THEN Raised("IndexError")
    ELSE Returned(data[2])

(***************************************************************************)
(* The BLEDevice objects the transport can report.  Devices 1 and 3 are    *)
(* two advertisements of one address; devices 1 and 2 are two addresses    *)
(* with the same last four hex characters; device 4 is not a heart-rate    *)
(* sensor, so that the scan has something to leave out.  An absent name (None) is the empty string: the code only tests *)
(* its truth value.                                                        *)
(***************************************************************************)
AddrA == <<"A","A",":","B","B",":","C","C",":","D","D",":","E","E",":","F","F">>
AddrB == <<"1","1",":","2","2",":","3","3",":","4","4",":","E","E",":","F","F">>
AddrC == <<"1","1",":","2","2",":","3","3",":","4","4",":","5","5",":","1","A">>

Devices ==
    << [address |-> AddrA, name |-> <<"O","T","b","e","a","t","-","1","2","3","4">>, uuids |-> {}],
       [address |-> AddrB, name |-> <<>>, uuids |-> {HR_SERVICE_UUID}],
       [address |-> AddrA, name |-> <<"H","R","-","2">>, uuids |-> {OTHER_UUID}],
       [address |-> AddrC, name |-> <<"P","h","o","n","e">>, uuids |-> {OTHER_UUID}] >>

DeviceIds == 1..Len(Devices)
Addresses == {Devices[d].address : d \in DeviceIds}

\* sequences over S of length at most n
BSeq(S, n) == UNION {[1..k -> S] : k \in 0..n}

\* the notification payloads the sensors send
NotifyPayloads == {<<0, 72>>, <<1, 72, 0>>, <<0>>}

\* the inputs of the decoder
ProbeBytes == {0, 1, 2, 72, 255}
ProbeFlags == {0, 1, 2, 3, 16, 17, 254, 255}
ProbeInputs ==
    {<<>>} \cup {<<f>> \o r : f \in ProbeFlags, r \in BSeq(ProbeBytes, MaxLen - 1)}

VARIABLES
    mqtt_client,        \* "None", "connected" (setup_mqtt), "closed" (loop_stop, disconnect)
    running,            \* self.running
    sensor_tasks,       \* self.sensor_tasks, in insertion order: <<[address, task], ...>>
    connected_devices,  \* self.connected_devices: address -> device
    tasks,              \* the monitor_single_device tasks created so far
    main_pc,            \* where run() is: "init", "scan", "sleep", "await", "done"
    sleep_i,            \* the index of the inter-scan sleep loop
    to_stop,            \* what is left of list(self.sensor_tasks.items()) in run()'s finally
    main_exc,           \* what run() ends with: "none", "cancelled", "scan_error" (raised by
                        \* discover), "error" (a session's exception, raised by await task)
    loop_state,         \* asyncio.run: "running", "cleanup", "closed"
    last_published,     \* history: the latest call of mqtt_client.publish
    last_on_topic,      \* history: state topic -> the payload last published on it
    nnotify,            \* history: notifications delivered
    probe,              \* history: the decoder's latest input and result
    rescanned           \* history: a scan has returned an address that was tracked already

vars == <<mqtt_client, running, sensor_tasks, connected_devices, tasks, main_pc, sleep_i,
          to_stop, main_exc, loop_state, last_published, last_on_topic, nnotify, probe, rescanned>>

\* one call of self.mqtt_client.publish(topic, payload, retain) by task t; ok is whether
\* it returned (it raised otherwise); kind and n tell the calls apart in the history:
\* "discovery", "measurement" (of notification number n) or "zero"
Publication(t, kind, n, topic, payload, retain, ok) ==
    [task |-> t, kind |-> kind, n |-> n, topic |-> topic, payload |-> payload,
     retain |-> retain, ok |-> ok]

NoPublication == Publication(0, "none", 0, <<>>, <<>>, FALSE, FALSE)

StateTopics == {state_topic(a) : a \in Addresses}

\* the decoder's latest input and what it gave; dropped counts the inputs it raised on
NoProbe == [data |-> <<>>, done |-> FALSE, result |-> Raised("unset"), dropped |-> 0]

\* OTbeatMQTTRelay.__init__
Init ==
    /\ mqtt_client = "None"
    /\ running = FALSE
    /\ sensor_tasks = <<>>
    /\ connected_devices = [a \in {} |-> 0]
    /\ tasks = <<>>
    /\ main_pc = "init"
    /\ sleep_i = 0
    /\ to_stop = <<>>
    /\ main_exc = "none"
    /\ loop_state = "running"
    /\ last_published = NoPublication
    /\ last_on_topic = [topic \in StateTopics |-> <<>>]
    /\ nnotify = 0
    /\ probe = NoProbe
    /\ rescanned = FALSE

(***************************************************************************)
(* Dictionaries.                                                           *)
(***************************************************************************)
DictPut(f, k, v) == [x \in (DOMAIN f) \cup {k} |-> IF x = k THEN v ELSE f[x]]
DictDel(f, k) == [x \in (DOMAIN f) \ {k} |-> f[x]]

\* the keys of self.sensor_tasks
TaskKeys(st) == {st[i].address : i \in 1..Len(st)}

\* the removal that leaves self.sensor_tasks as it is
TasksDel_none(st, address) == st

\* del self.sensor_tasks[address]
RECURSIVE TasksDel(_, _)
TasksDel(st, address) ==
    IF st = <<>> THEN <<>>
    ELSE IF Head(st).address = address THEN TasksDel(Tail(st), address)
    ELSE <<Head(st)>> \o TasksDel(Tail(st), address)

\* self.sensor_tasks[address] = task: a new key goes last, an old key keeps its place
TasksPut(st, address, t) ==
    IF address \in TaskKeys(st)
    THEN [i \in 1..Len(st) |-> IF st[i].address = address
                               THEN [address |-> address, task |-> t] ELSE st[i]]
    ELSE Append(st, [address |-> address, task |-> t])

(***************************************************************************)
(* Discovery (find_otbeat_devices, scan_and_connect_devices).              *)
(***************************************************************************)
\* the test of find_otbeat_devices on one discovered device
IsOTbeat(device) ==
    \/ /\ device.name # <<>>
       /\ \/ Contains(<<"O","T","b","e","a","t">>, device.name)
          \/ Contains(<<"H","R">>, device.name)
    \/ /\ device.uuids # {}
       /\ HR_SERVICE_UUID \in device.uuids

RECURSIVE find_otbeat_devices(_)
\* the devices of one BleakScanner.discover result that pass the test, in order
find_otbeat_devices(devices) ==
    IF devices = <<>> THEN <<>>
    ELSE IF IsOTbeat(Devices[Head(devices)])
         THEN <<Head(devices)>> \o find_otbeat_devices(Tail(devices))
         ELSE find_otbeat_devices(Tail(devices))

\* a task as asyncio.create_task(self.monitor_single_device(device)) leaves it once it
\* has run to its first suspension, the connect of BleakClient.__aenter__
NewTask(d) ==
    [device |-> d, pc |-> "connect", is_connected |-> FALSE, notifying |-> FALSE,
     must_cancel |-> FALSE, exit |-> "none", hangs |-> FALSE, result |-> "none",
     active |-> FALSE,
     discoveries |-> 0, zeros |-> 0, removed |-> 0]

\* the scan loop that skips nothing: the membership test is missing
TrackedAlready_never(cd, address) == FALSE

\* device.address in self.connected_devices
TrackedAlready(cd, address) == address \in DOMAIN cd

RECURSIVE ScanLoop_updates_info(_, _)
\* the scan loop that stores the fresh advertisement of an address it tracks already
ScanLoop_updates_info(devices, s) ==
    IF devices = <<>> THEN s
    ELSE LET d == Head(devices)
             address == Devices[d].address
         IN  IF TrackedAlready(s.cd, address)
             THEN ScanLoop_updates_info(Tail(devices), [s EXCEPT !.cd = DictPut(s.cd, address, d)])
             ELSE ScanLoop_updates_info(Tail(devices),
                           [cd |-> DictPut(s.cd, address, d),
                            tk |-> Append(s.tk, NewTask(d)),
                            st |-> TasksPut(s.st, address, Len(s.tk) + 1)])

RECURSIVE ScanLoop(_, _)
\* the for loop of scan_and_connect_devices over the devices found, from state
\* s = [cd, st, tk] (connected_devices, sensor_tasks, tasks)
ScanLoop(devices, s) ==
    IF devices = <<>> THEN s
    ELSE LET d == Head(devices)
             address == Devices[d].address
         IN  IF TrackedAlready(s.cd, address)
             THEN ScanLoop(Tail(devices), s)
             ELSE ScanLoop(Tail(devices),
                           [cd |-> DictPut(s.cd, address, d),
                            tk |-> Append(s.tk, NewTask(d)),
                            st |-> TasksPut(s.st, address, Len(s.tk) + 1)])

(***************************************************************************)
(* The main task: run().                                                   *)
(***************************************************************************)
RECURSIVE StopLoop(_, _)
\* the for loop of run()'s finally from the items left, up to its next suspension:
\* cancel() and await of a task that is done do not suspend; a task that ended with
\* an exception re-raises it from the await
StopLoop(items, tk) ==
    IF items = <<>> THEN [pc |-> "done", items |-> <<>>, tk |-> tk, raised |-> FALSE]
    ELSE LET t == Head(items).task
         IN  IF tk[t].pc = "done"
             THEN IF tk[t].result = "error"
                  THEN [pc |-> "done", items |-> <<>>, tk |-> tk, raised |-> TRUE]
                  ELSE StopLoop(Tail(items), tk)
             ELSE [pc |-> "await", items |-> items,
                   tk |-> [tk EXCEPT ![t].must_cancel = TRUE], raised |-> FALSE]

\* run()'s finally block, entered with the exception exc in flight
Shutdown(exc) ==
    LET r == StopLoop(sensor_tasks, tasks)
    IN  /\ running' = FALSE
        /\ main_pc' = r.pc
        /\ to_stop' = r.items
        /\ tasks' = r.tk
        /\ main_exc' = IF r.raised THEN "error" ELSE exc
        /\ sleep_i' = sleep_i

\* run() up to its first suspension: setup_mqtt, running = True, the first discover
Run ==
    /\ main_pc = "init"
    /\ mqtt_client' = "connected"
    /\ running' = TRUE
    /\ main_pc' = "scan"
    /\ UNCHANGED <<sensor_tasks, connected_devices, tasks, sleep_i, to_stop, main_exc,
                   loop_state, last_published, last_on_topic, nnotify, probe, rescanned>>

\* run()'s loops from iteration i of the inter-scan wait, up to the next suspension:
\* "sleep" (asyncio.sleep(1)), "scan" (the next discover), or "finally" when
\* self.running is found cleared
LoopFrom(i) ==
    IF i < RESCAN_INTERVAL /\ running THEN "sleep"
    ELSE IF running THEN "scan"
    ELSE "finally"

\* BleakScanner.discover returns devices: the rest of scan_and_connect_devices, then
\* run() up to the first sleep of the inter-scan wait (or the next discover)
ScanReturns(devices) ==
    /\ main_pc = "scan"
    /\ LET s == ScanLoop(find_otbeat_devices(devices),
                         [cd |-> connected_devices, st |-> sensor_tasks, tk |-> tasks])
           r == StopLoop(s.st, s.tk)
       IN  /\ Len(s.tk) <= MaxTasks
           /\ connected_devices' = s.cd
           /\ sensor_tasks' = s.st
           /\ IF LoopFrom(0) = "finally"
              THEN /\ tasks' = r.tk
                   /\ main_pc' = r.pc
                   /\ to_stop' = r.items
                   /\ main_exc' = IF r.raised THEN "error" ELSE main_exc
              ELSE /\ tasks' = s.tk
                   /\ main_pc' = LoopFrom(0)
                   /\ UNCHANGED <<to_stop, main_exc>>
    /\ sleep_i' = 0
    /\ rescanned' = (rescanned \/ \E i \in 1..Len(devices) :
                                     /\ IsOTbeat(Devices[devices[i]])
                                     /\ Devices[devices[i]].address \in DOMAIN connected_devices)
    /\ UNCHANGED <<mqtt_client, running, loop_state, last_published, last_on_topic, nnotify, probe>>

\* BleakScanner.discover raises: nothing in run() catches it, the finally block runs
ScanFails ==
    /\ main_pc = "scan"
    /\ Shutdown("scan_error")
    /\ UNCHANGED <<mqtt_client, sensor_tasks, connected_devices, loop_state, last_published, last_on_topic,
                   nnotify, probe, rescanned>>

\* asyncio.sleep(1) of the inter-scan wait returns
SleepReturns ==
    /\ main_pc = "sleep"
    /\ IF LoopFrom(sleep_i + 1) = "finally"
       THEN Shutdown("none")
       ELSE /\ main_pc' = LoopFrom(sleep_i + 1)
            /\ sleep_i' = IF LoopFrom(sleep_i + 1) = "sleep" THEN sleep_i + 1 ELSE 0
            /\ UNCHANGED <<running, tasks, to_stop, main_exc>>
    /\ UNCHANGED <<mqtt_client, sensor_tasks, connected_devices, loop_state, last_published, last_on_topic,
                   nnotify, probe, rescanned>>

\* a stop that only clears the flag and leaves run() in its sleep
Interrupt_flag_only ==
    /\ main_pc \in {"scan", "sleep"}
    /\ running
    /\ running' = FALSE
    /\ UNCHANGED <<mqtt_client, sensor_tasks, connected_devices, tasks, main_pc, sleep_i,
                   to_stop, main_exc, loop_state, last_published, last_on_topic,
                   nnotify, probe, rescanned>>

\* the external stop: the interrupt cancels the main task, which is suspended in
\* discover or in the inter-scan sleep; CancelledError passes the except clause and
\* the finally block runs
Interrupt ==
    /\ main_pc \in {"scan", "sleep"}
    /\ Shutdown("cancelled")
    /\ UNCHANGED <<mqtt_client, sensor_tasks, connected_devices, loop_state, last_published, last_on_topic,
                   nnotify, probe, rescanned>>

\* the task run() awaits in its finally block is done
AwaitReturns ==
    /\ main_pc = "await"
    /\ tasks[Head(to_stop).task].pc = "done"
    /\ LET r == StopLoop(to_stop, tasks)
       IN  /\ main_pc' = r.pc
           /\ to_stop' = r.items
           /\ tasks' = r.tk
           /\ main_exc' = IF r.raised THEN "error" ELSE main_exc
    /\ UNCHANGED <<mqtt_client, running, sensor_tasks, connected_devices, sleep_i,
                   loop_state, last_published, last_on_topic, nnotify, probe, rescanned>>

(***************************************************************************)
(* Publishing (publish_discovery, publish_heart_rate).                     *)
(***************************************************************************)
\* publish_heart_rate(device_address, heart_rate), called by task t
publish_heart_rate(t, kind, n, device_address, heart_rate, ok) ==
    Publication(t, kind, n, state_topic(device_address), Str(heart_rate), FALSE, ok)

\* publish_discovery(device_address, device_name), called by task t
publish_discovery(t, device_address, device_name, ok) ==
    Publication(t, "discovery", 0, discovery_topic(device_address),
                discovery_payload(device_address, device_name), TRUE, ok)

\* the call pub of self.mqtt_client.publish is made
Publish(pub) ==
    /\ last_published' = pub
    /\ last_on_topic' = IF pub.ok /\ pub.topic \in StateTopics
                        THEN [last_on_topic EXCEPT ![pub.topic] = pub.payload]
                        ELSE last_on_topic

(***************************************************************************)
(* A session: monitor_single_device(device), one task.                     *)
(***************************************************************************)
AddressOf(t) == Devices[tasks[t].device].address

\* the finally block of monitor_single_device, which has no suspension: the zero
\* publish, then the two removals; kind is how the try block ended ("normal", "exc",
\* "cancel"); when the publish raises the removals are skipped and the task ends with
\* that exception
FinallyBlock(t, kind, ok) ==
    LET address == AddressOf(t)
        tracked == address \in DOMAIN connected_devices \/ address \in TaskKeys(sensor_tasks)
    IN  /\ Publish(publish_heart_rate(t, "zero", 0, address, 0, ok))
        /\ connected_devices' = IF ok THEN DictDel(connected_devices, address)
                                ELSE connected_devices
        /\ sensor_tasks' = IF ok THEN TasksDel(sensor_tasks, address) ELSE sensor_tasks
        /\ tasks' = [tasks EXCEPT
                       ![t].pc = "done", ![t].must_cancel = FALSE,
                       ![t].is_connected = FALSE, ![t].notifying = FALSE,
                       ![t].exit = "none", ![t].hangs = FALSE,
                       ![t].zeros = @ + 1,
                       ![t].result = IF ~ok THEN "error"
                                     ELSE IF kind = "cancel" THEN "cancelled" ELSE "ok",
                       ![t].removed = IF ok /\ tracked THEN @ + 1 ELSE @]

\* the condition of the keep-alive loop
KeepAlive(t) == running /\ tasks[t].is_connected

\* task t is suspended and no cancellation is pending for it
Awake(t) ==
    /\ t \in 1..Len(tasks)
    /\ tasks[t].pc # "done"
    /\ ~tasks[t].must_cancel

\* the session that subscribes without publishing the discovery payload
ConnectOk_without_discovery(t, ok) ==
    /\ Awake(t) /\ tasks[t].pc = "connect"
    /\ ok
    /\ tasks' = [tasks EXCEPT ![t].is_connected = TRUE, ![t].pc = "subscribe"]
    /\ UNCHANGED <<mqtt_client, running, sensor_tasks, connected_devices, main_pc,
                   sleep_i, to_stop, main_exc, loop_state, last_published, last_on_topic,
                   nnotify, probe, rescanned>>

\* BleakClient.__aenter__ returns: publish_discovery, create_heart_rate_callback, up to
\* the await of start_notify; a publish that raises leaves the with block through
\* __aexit__
ConnectOk(t, ok) ==
    /\ Awake(t) /\ tasks[t].pc = "connect"
    /\ Publish(publish_discovery(t, AddressOf(t), Devices[tasks[t].device].name, ok))
    /\ tasks' = [tasks EXCEPT ![t].is_connected = TRUE,
                              ![t].discoveries = @ + 1,
                              ![t].pc = IF ok THEN "subscribe" ELSE "aexit",
                              ![t].exit = IF ok THEN "none" ELSE "exc"]
    /\ UNCHANGED <<mqtt_client, running, sensor_tasks, connected_devices, main_pc,
                   sleep_i, to_stop, main_exc, loop_state, nnotify, probe, rescanned>>

\* BleakClient.__aenter__ raises: except Exception, then the finally block
ConnectFails(t, ok) ==
    /\ Awake(t) /\ tasks[t].pc = "connect"
    /\ FinallyBlock(t, "exc", ok)
    /\ UNCHANGED <<mqtt_client, running, main_pc, sleep_i, to_stop, main_exc,
                   loop_state, nnotify, probe, rescanned>>

\* start_notify returns: the first test of the keep-alive loop
SubscribeOk(t) ==
    /\ Awake(t) /\ tasks[t].pc = "subscribe"
    /\ tasks' = [tasks EXCEPT ![t].notifying = TRUE,
                              ![t].active = KeepAlive(t),
                              ![t].pc = IF KeepAlive(t) THEN "sleep" ELSE "aexit",
                              ![t].exit = IF KeepAlive(t) THEN "none" ELSE "normal"]
    /\ UNCHANGED <<mqtt_client, running, sensor_tasks, connected_devices, main_pc, sleep_i,
                   to_stop, main_exc, loop_state, last_published, last_on_topic,
                   nnotify, probe, rescanned>>

\* start_notify raises: the with block is left through __aexit__
SubscribeFails(t) ==
    /\ Awake(t) /\ tasks[t].pc = "subscribe"
    /\ tasks' = [tasks EXCEPT ![t].pc = "aexit", ![t].exit = "exc"]
    /\ UNCHANGED <<mqtt_client, running, sensor_tasks, connected_devices, main_pc, sleep_i,
                   to_stop, main_exc, loop_state, last_published, last_on_topic,
                   nnotify, probe, rescanned>>

\* the keep-alive loop that publishes the zero itself when it ends, inside the with
\* block, before the connection is closed
Poll_zero_inside_with(t) ==
    /\ Awake(t) /\ tasks[t].pc = "sleep"
    /\ IF KeepAlive(t)
       THEN UNCHANGED <<tasks, last_published, last_on_topic>>
       ELSE /\ Publish(publish_heart_rate(t, "zero", 0, AddressOf(t), 0, TRUE))
            /\ tasks' = [tasks EXCEPT ![t].pc = "aexit", ![t].exit = "normal",
                                      ![t].zeros = @ + 1]
    /\ UNCHANGED <<mqtt_client, running, sensor_tasks, connected_devices, main_pc, sleep_i,
                   to_stop, main_exc, loop_state, nnotify, probe, rescanned>>

\* asyncio.sleep(1) of the keep-alive loop returns: the next test of the loop
Poll(t) ==
    /\ Awake(t) /\ tasks[t].pc = "sleep"
    /\ tasks' = [tasks EXCEPT ![t].pc = IF KeepAlive(t) THEN "sleep" ELSE "aexit",
                              ![t].exit = IF KeepAlive(t) THEN "none" ELSE "normal"]
    /\ UNCHANGED <<mqtt_client, running, sensor_tasks, connected_devices, main_pc, sleep_i,
                   to_stop, main_exc, loop_state, last_published, last_on_topic,
                   nnotify, probe, rescanned>>

\* the disconnect of BleakClient.__aexit__ returns: the with block is left, no further
\* callback is delivered, then except Exception (for "exc") and the finally block
AexitReturns(t, ok) ==
    /\ Awake(t) /\ tasks[t].pc = "aexit"
    /\ ~tasks[t].hangs
    /\ FinallyBlock(t, tasks[t].exit, ok)
    /\ UNCHANGED <<mqtt_client, running, main_pc, sleep_i, to_stop, main_exc,
                   loop_state, nnotify, probe, rescanned>>

\* task.cancel() reaches the task at its suspension: CancelledError is raised there.
\* In connect (inside __aenter__) and in the disconnect of __aexit__ it leaves the with
\* statement at once; in start_notify and in the sleep it enters __aexit__
Cancelled(t, ok) ==
    /\ t \in 1..Len(tasks)
    /\ tasks[t].pc # "done"
    /\ tasks[t].must_cancel
    /\ IF tasks[t].pc \in {"connect", "aexit"}
       THEN FinallyBlock(t, "cancel", ok)
       ELSE /\ ok
            /\ tasks' = [tasks EXCEPT ![t].pc = "aexit", ![t].exit = "cancel",
                                      ![t].must_cancel = FALSE]
            /\ UNCHANGED <<last_published, last_on_topic, connected_devices, sensor_tasks>>
    /\ UNCHANGED <<mqtt_client, running, main_pc, sleep_i, to_stop, main_exc,
                   loop_state, nnotify, probe, rescanned>>

(***************************************************************************)
(* The transport: the peer, its notifications, a disconnect that hangs.    *)
(***************************************************************************)
\* the connection is lost: client.is_connected turns False
PeerDrops(t) ==
    /\ t \in 1..Len(tasks)
    /\ tasks[t].pc \in {"subscribe", "sleep"}
    /\ tasks[t].is_connected
    /\ tasks' = [tasks EXCEPT ![t].is_connected = FALSE]
    /\ UNCHANGED <<mqtt_client, running, sensor_tasks, connected_devices, main_pc, sleep_i,
                   to_stop, main_exc, loop_state, last_published, last_on_topic,
                   nnotify, probe, rescanned>>

\* the disconnect of __aexit__ never returns
TransportHangs(t) ==
    /\ t \in 1..Len(tasks)
    /\ tasks[t].pc = "aexit"
    /\ ~tasks[t].hangs
    /\ tasks' = [tasks EXCEPT ![t].hangs = TRUE]
    /\ UNCHANGED <<mqtt_client, running, sensor_tasks, connected_devices, main_pc, sleep_i,
                   to_stop, main_exc, loop_state, last_published, last_on_topic,
                   nnotify, probe, rescanned>>

\* the callback that publishes a zero when the decoder raises
heart_rate_callback_zero_on_error(t, data, ok) ==
    LET heart_rate == parse_heart_rate(data)
    IN  /\ probe' = [data |-> data, done |-> TRUE, result |-> heart_rate,
                     dropped |-> probe.dropped + IF heart_rate.exc # "none" THEN 1 ELSE 0]
        /\ Publish(publish_heart_rate(t, "measurement", nnotify + 1, AddressOf(t),
                                      heart_rate.value, ok))

\* heart_rate_callback of task t on data: nothing is published when the decoder
\* raises (except Exception logs it); a publish that raises is logged the same way
heart_rate_callback(t, data, ok) ==
    LET heart_rate == parse_heart_rate(data)
    IN  /\ probe' = [data |-> data, done |-> TRUE, result |-> heart_rate,
                     dropped |-> probe.dropped + IF heart_rate.exc # "none" THEN 1 ELSE 0]
        /\ IF heart_rate.exc # "none"
           THEN UNCHANGED <<last_published, last_on_topic>>
           ELSE Publish(publish_heart_rate(t, "measurement", nnotify + 1, AddressOf(t),
                                           heart_rate.value, ok))

\* the transport delivers a notification to the callback of task t, between two steps
\* of the tasks, while the subscription stands and the connection is up
Notify(t, data, ok) ==
    /\ t \in 1..Len(tasks)
    /\ tasks[t].pc \in {"sleep", "aexit"}
    /\ tasks[t].notifying /\ tasks[t].is_connected
    /\ nnotify < MaxNotify
    /\ nnotify' = nnotify + 1
    /\ heart_rate_callback(t, data, ok)
    /\ UNCHANGED <<mqtt_client, running, sensor_tasks, connected_devices, tasks, main_pc,
                   sleep_i, to_stop, main_exc, loop_state, rescanned>>

(***************************************************************************)
(* asyncio.run and the finally clause of __main__.                         *)
(***************************************************************************)
\* run() is over: asyncio.run cancels the tasks that are left and runs the loop until
\* they are done
RunnerCancels ==
    /\ main_pc = "done"
    /\ loop_state = "running"
    /\ loop_state' = "cleanup"
    /\ tasks' = [t \in 1..Len(tasks) |->
                   IF tasks[t].pc # "done" THEN [tasks[t] EXCEPT !.must_cancel = TRUE]
                   ELSE tasks[t]]
    /\ UNCHANGED <<mqtt_client, running, sensor_tasks, connected_devices, main_pc, sleep_i,
                   to_stop, main_exc, last_published, last_on_topic, nnotify, probe, rescanned>>

\* the broker connection closed while sessions are still unwinding
RunnerCloses_early ==
    /\ loop_state = "cleanup"
    /\ loop_state' = "closed"
    /\ mqtt_client' = "closed"
    /\ UNCHANGED <<running, sensor_tasks, connected_devices, tasks, main_pc, sleep_i,
                   to_stop, main_exc, last_published, last_on_topic, nnotify, probe, rescanned>>

\* the loop is closed; __main__'s finally: loop_stop() and disconnect()
RunnerCloses ==
    /\ loop_state = "cleanup"
    /\ \A t \in 1..Len(tasks) : tasks[t].pc = "done"
    /\ loop_state' = "closed"
    /\ mqtt_client' = "closed"
    /\ UNCHANGED <<running, sensor_tasks, connected_devices, tasks, main_pc, sleep_i,
                   to_stop, main_exc, last_published, last_on_topic, nnotify, probe, rescanned>>

(***************************************************************************)
(* The specification.                                                      *)
(***************************************************************************)
TaskIds == 1..MaxTasks

Next ==
    \/ Run
    \/ \E devices \in BSeq(DeviceIds, MaxScan) : ScanReturns(devices)
    \/ ScanFails
    \/ SleepReturns
    \/ Interrupt
    \/ AwaitReturns
    \/ \E t \in TaskIds, ok \in BOOLEAN : ConnectOk(t, ok)
    \/ \E t \in TaskIds, ok \in BOOLEAN : ConnectFails(t, ok)
    \/ \E t \in TaskIds : SubscribeOk(t)
    \/ \E t \in TaskIds : SubscribeFails(t)
    \/ \E t \in TaskIds : Poll(t)
    \/ \E t \in TaskIds, ok \in BOOLEAN : AexitReturns(t, ok)
    \/ \E t \in TaskIds, ok \in BOOLEAN : Cancelled(t, ok)
    \/ \E t \in TaskIds : PeerDrops(t)
    \/ \E t \in TaskIds : TransportHangs(t)
    \/ \E t \in TaskIds, data \in NotifyPayloads, ok \in BOOLEAN : Notify(t, data, ok)
    \/ RunnerCancels
    \/ RunnerCloses

Spec == Init /\ [][Next]_vars

(***************************************************************************)
(* The event loop runs every task that can run: a suspended call of the    *)
(* transport returns or raises, a pending cancellation is delivered, a     *)
(* sleep ends, unless the transport hangs (TransportHangs).  What the      *)
(* environment does (the interrupt, a lost connection, a notification) is  *)
(* not forced.                                                             *)
(***************************************************************************)
MainStep ==
    \/ Run
    \/ \E devices \in BSeq(DeviceIds, MaxScan) : ScanReturns(devices)
    \/ SleepReturns
    \/ AwaitReturns

SessionStep(t) ==
    \/ \E ok \in BOOLEAN : ConnectOk(t, ok)
    \/ \E ok \in BOOLEAN : ConnectFails(t, ok)
    \/ SubscribeOk(t)
    \/ SubscribeFails(t)
    \/ Poll(t)
    \/ \E ok \in BOOLEAN : AexitReturns(t, ok)
    \/ \E ok \in BOOLEAN : Cancelled(t, ok)

FairSpec ==
    /\ Spec
    /\ WF_vars(MainStep)
    /\ \A t \in TaskIds : WF_vars(SessionStep(t))
    /\ WF_vars(RunnerCancels \/ RunnerCloses)

(***************************************************************************)
(* The decoder on its own: parse_heart_rate applied to each input.         *)
(***************************************************************************)
DecodeInit ==
    /\ mqtt_client = "None"
    /\ running = FALSE
    /\ sensor_tasks = <<>>
    /\ connected_devices = [a \in {} |-> 0]
    /\ tasks = <<>>
    /\ main_pc = "init"
    /\ sleep_i = 0
    /\ to_stop = <<>>
    /\ main_exc = "none"
    /\ loop_state = "running"
    /\ last_published = NoPublication
    /\ last_on_topic = [topic \in StateTopics |-> <<>>]
    /\ nnotify = 0
    /\ probe \in {[NoProbe EXCEPT !.data = d] : d \in ProbeInputs}
    /\ rescanned = FALSE

Decode ==
    /\ ~probe.done
    /\ probe' = [probe EXCEPT !.done = TRUE, !.result = parse_heart_rate(probe.data)]
    /\ UNCHANGED <<mqtt_client, running, sensor_tasks, connected_devices, tasks, main_pc,
                   sleep_i, to_stop, main_exc, loop_state, last_published, last_on_topic,
                   nnotify, rescanned>>

DecodeSpec == DecodeInit /\ [][Decode]_vars

(***************************************************************************)
(* What the claims speak of.                                               *)
(***************************************************************************)
Spawned == 1..Len(tasks)

\* a live session: a task that has not finished
Live(t) == tasks[t].pc # "done"

LiveFor(address) == {t \in Spawned : Live(t) /\ AddressOf(t) = address}

\* run() has logged "All sensors disconnected": its finally block ran to its last line
Reported == main_pc = "done" /\ main_exc # "error"

\* the tracked set: the keys of the two maps
Tracked(address) ==
    address \in DOMAIN connected_devices \/ address \in TaskKeys(sensor_tasks)

(***************************************************************************)
(* C1.  In every reachable state at most one live session (monitoring      *)
(* task) exists for any one peer address, whatever the scans return        *)
(* (overlapping sets, one address twice) and however sessions end between  *)
(* them.                                                                   *)
(***************************************************************************)
C1_OneLiveSessionPerAddress ==
    \A address \in Addresses : Cardinality(LiveFor(address)) <= 1

\* an address is monitored a second time, from another advertisement, after its first
\* session has ended
C1_Respawned ==
    \E t1, t2 \in Spawned :
        /\ t1 < t2
        /\ AddressOf(t1) = AddressOf(t2)
        /\ tasks[t1].device # tasks[t2].device
        /\ ~Live(t1)
        /\ Live(t2)

(***************************************************************************)
(* C2.  Every session that has ended has published the zero measurement    *)
(* exactly once and has been removed from the tracked set exactly once,    *)
(* whichever way it ended.                                                 *)
(***************************************************************************)
C2_OneZeroOneRemoval ==
    \A t \in Spawned : ~Live(t) => (tasks[t].zeros = 1 /\ tasks[t].removed = 1)

(***************************************************************************)
(* C3.  A measurement a notification causes is published by a session      *)
(* only before that session's zero publish and only while its peer is      *)
(* tracked, and the step that removes a session from the tracked set is    *)
(* the step of its zero publish: the zero is the last publish of the       *)
(* session.                                                                *)
(***************************************************************************)
C3_ZeroPublishIsLast ==
    [][\A t \in Spawned :
         /\ (/\ last_published' # last_published
             /\ last_published'.kind = "measurement"
             /\ last_published'.task = t)
            => (tasks[t].zeros = 0 /\ Tracked(AddressOf(t)) /\ Live(t))
         /\ (tasks'[t].removed > tasks[t].removed)
            => (/\ last_published'.kind = "zero"
                /\ last_published'.task = t
                /\ tasks'[t].zeros = 1
                /\ ~Live(t)')
      ]_vars

\* the only session there is has published a measurement, then its zero, and is removed
C3_MeasuredThenZero ==
    /\ Len(tasks) = 1
    /\ probe.done /\ probe.result.exc = "none"
    /\ last_on_topic[state_topic(AddressOf(1))] = Str(0)
    /\ last_published.kind = "zero"
    /\ tasks[1].pc = "done" /\ tasks[1].removed = 1
    /\ ~Tracked(AddressOf(1))

(***************************************************************************)
(* C4.  The shutdown sequence of run() cannot get stuck: whenever it waits  *)
(* for a session, that session has ended or can still take a step towards  *)
(* its end, also when the disconnect of a cancelled session hangs.         *)
(***************************************************************************)
C4_ShutdownNeverStuck ==
    main_pc = "await" => ENABLED (AwaitReturns \/ SessionStep(Head(to_stop).task))

(***************************************************************************)
(* C5.  A session that has been Active and has left its keep-alive loop    *)
(* for good has published its zero and has been removed from the tracked   *)
(* set.                                                                    *)
(***************************************************************************)
C5_ActiveSessionEndsRemoved ==
    \A t \in Spawned :
        (tasks[t].active /\ ~Live(t))
            => (/\ tasks[t].zeros = 1
                /\ tasks[t].removed = 1
                /\ ~(Tracked(AddressOf(t)) /\ LiveFor(AddressOf(t)) = {}))

(***************************************************************************)
(* C6.  Whenever a session has ended and been removed and its peer has no  *)
(* live session, the value last published on the peer's state topic is 0,  *)
(* for every set of peers.                                                 *)
(***************************************************************************)
C6_NoStaleReading ==
    \A t \in Spawned :
        (tasks[t].removed = 1 /\ LiveFor(AddressOf(t)) = {})
            => last_on_topic[state_topic(AddressOf(t))] = Str(0)

(***************************************************************************)
(* C7.  Once a session has ended, for any reason, its peer is no longer in *)
(* the tracked set unless a later session monitors it: the next scan that  *)
(* returns the peer finds it untracked.                                    *)
(***************************************************************************)
C7_EndedPeerUntracked ==
    \A t \in Spawned :
        ~Live(t) => (~Tracked(AddressOf(t)) \/ LiveFor(AddressOf(t)) # {})

(***************************************************************************)
(* C8.  A publish that fails never aborts a session: after a failing       *)
(* discovery publish the session goes on to subscribe, a failing           *)
(* measurement publish leaves the session as it is, and after a failing    *)
(* zero publish the peer is removed from the tracked set.                  *)
(***************************************************************************)
C8_PublishFailureNeverAborts ==
    [][\A t \in Spawned :
         /\ (tasks'[t].discoveries > tasks[t].discoveries /\ ~last_published'.ok)
            => tasks'[t].pc = "subscribe"
         /\ (/\ last_published' # last_published
             /\ last_published'.kind = "measurement"
             /\ last_published'.task = t
             /\ ~last_published'.ok)
            => tasks'[t] = tasks[t]
         /\ (tasks'[t].zeros > tasks[t].zeros /\ ~last_published'.ok)
            => ~Tracked(AddressOf(t))'
      ]_vars

C10_DecodedValue ==
    probe.done =>
        /\ (Len(probe.data) >= 2 /\ probe.data[1] % 2 = 0)
           => probe.result = Returned(probe.data[2])
        /\ (Len(probe.data) >= 3 /\ probe.data[1] % 2 = 1)
           => probe.result = Returned(probe.data[2] + 256 * probe.data[3])

\* a 16-bit value with other flag bits set and a byte after the field
C10_Decoded16 ==
    /\ probe.done
    /\ probe.data = <<17, 2, 1, 255>>
    /\ probe.result = Returned(258)

(***************************************************************************)
(* C11.  The decoder raises on every payload shorter than its flags byte   *)
(* asks for: fewer than 2 bytes with bit 0 clear, fewer than 3 bytes with  *)
(* bit 0 set.                                                              *)
(***************************************************************************)
C11_ShortPayloadFails ==
    (/\ probe.done
     /\ \/ Len(probe.data) < 2
        \/ (probe.data[1] % 2 = 1 /\ Len(probe.data) < 3))
        => probe.result.exc # "none"

(***************************************************************************)
(* C12.  The end-to-end scenario, with the topics the code names.  While   *)
(* the peer "OTbeat-1234" at AA:BB:CC:DD:EE:FF is the only peer discovered:*)
(* its session, once connected, publishes the retained discovery payload   *)
(* with unique_id otbeat_<suffix>_hr on prefix_<suffix>/config, once and   *)
(* before anything else; a notification [0x00, 72] publishes 72 on         *)
(* prefix_<suffix>/state, after the discovery and before the zero; the     *)
(* session ends in the step that publishes 0 on that state topic; and      *)
(* run() ends its shutdown only after that.  The suffix is the last four   *)
(* hex characters of the address in lower case: eeff.                      *)
(***************************************************************************)
ScenarioConfigTopic(suffix) == <<"p","r","e","f","i","x","_">> \o suffix \o <<"/","c","o","n","f","i","g">>
ScenarioStateTopic(suffix) == <<"p","r","e","f","i","x","_">> \o suffix \o <<"/","s","t","a","t","e">>
ScenarioUniqueId(suffix) == <<"o","t","b","e","a","t","_">> \o suffix \o <<"_","h","r">>

ScenarioStep(suffix) ==
    (Len(tasks) = 1 /\ tasks[1].device = 1) =>
         /\ (tasks'[1].discoveries > tasks[1].discoveries)
            => (/\ tasks[1].pc = "connect" /\ tasks'[1].is_connected
                /\ tasks[1].discoveries = 0 /\ tasks[1].zeros = 0 /\ nnotify = 0
                /\ last_published'.kind = "discovery"
                /\ last_published'.task = 1
                /\ last_published'.topic = ScenarioConfigTopic(suffix)
                /\ last_published'.retain
                /\ last_published'.payload.unique_id = ScenarioUniqueId(suffix)
                /\ last_published'.payload.state_topic = ScenarioStateTopic(suffix))
         /\ (nnotify' > nnotify /\ probe'.data = <<0, 72>>)
            => (/\ tasks[1].discoveries = 1 /\ tasks[1].zeros = 0
                /\ last_published'.kind = "measurement"
                /\ last_published'.task = 1
                /\ last_published'.topic = ScenarioStateTopic(suffix)
                /\ last_published'.payload = <<"7", "2">>
                /\ ~last_published'.retain)
         /\ (Live(1) /\ ~Live(1)')
            => (/\ tasks'[1].zeros = 1
                /\ last_published'.kind = "zero"
                /\ last_published'.task = 1
                /\ last_published'.topic = ScenarioStateTopic(suffix)
                /\ last_published'.payload = <<"0">>)
         /\ (main_pc # "done" /\ main_pc' = "done")
            => (~Live(1)' /\ tasks'[1].zeros = 1)

C12_ScenarioEeff == [][ScenarioStep(<<"e","e","f","f">>)]_vars

\* the scenario as the specification words it: prefix_efff, otbeat_efff_hr
C12_ScenarioEfff == [][ScenarioStep(<<"e","f","f","f">>)]_vars

\* the scenario has run to its end: discovery, 72, the external stop, 0
C12_ScenarioDone ==
    /\ Len(tasks) = 1 /\ tasks[1].device = 1
    /\ tasks[1].discoveries = 1
    /\ nnotify = 1 /\ probe.data = <<0, 72>> /\ probe.result = Returned(72)
    /\ main_pc = "done" /\ main_exc = "cancelled"
    /\ tasks[1].pc = "done" /\ tasks[1].result = "cancelled"
    /\ last_published.kind = "zero" /\ last_published.ok
    /\ last_on_topic[ScenarioStateTopic(<<"e","e","f","f">>)] = <<"0">>

(***************************************************************************)
(* C13.  The step in which a session's connection attempt fails ends the   *)
(* session: it has published no discovery payload, has never subscribed    *)
(* and was never Active, the step publishes its zero, and after the step   *)
(* its peer is no longer in the tracked set.                               *)
(***************************************************************************)
C13_ConnectFailureEndsSession ==
    [][\A t \in Spawned :
         (tasks[t].pc = "connect" /\ ~tasks[t].must_cancel /\ tasks'[t].pc # "connect"
          /\ ~tasks'[t].is_connected)
            => (/\ ~Live(t)'
                /\ tasks'[t].discoveries = 0
                /\ ~tasks'[t].notifying /\ ~tasks'[t].active
                /\ tasks'[t].zeros = 1
                /\ last_published'.kind = "zero" /\ last_published'.task = t
                /\ tasks'[t].removed = 1
                /\ ~Tracked(AddressOf(t))')
      ]_vars

(***************************************************************************)
(* C14.  A session publishes its discovery payload at most once, in the    *)
(* step in which its connection opens and before it subscribes; a session  *)
(* subscribes, and publishes a measurement, only after its discovery       *)
(* publish.                                                                *)
(***************************************************************************)
C14_DiscoveryOnceBeforeSubscribe ==
    [][\A t \in Spawned :
         /\ (tasks'[t].discoveries > tasks[t].discoveries)
            => (/\ tasks[t].discoveries = 0
                /\ tasks[t].pc = "connect" /\ tasks'[t].is_connected
                /\ ~tasks[t].notifying /\ ~tasks'[t].notifying
                /\ last_published'.kind = "discovery" /\ last_published'.task = t)
         /\ (tasks'[t].pc = "subscribe" \/ tasks'[t].notifying)
            => tasks'[t].discoveries = 1
         /\ (/\ last_published' # last_published
             /\ last_published'.kind = "measurement"
             /\ last_published'.task = t)
            => (tasks[t].discoveries = 1 /\ tasks[t].notifying)
      ]_vars

\* a session has published its discovery payload and then a measurement
C14_MeasuredAfterDiscovery ==
    /\ last_published.kind = "measurement"
    /\ last_published.task \in Spawned
    /\ tasks[last_published.task].discoveries = 1
    /\ tasks[last_published.task].notifying

(***************************************************************************)
(* C15.  A discovery scan that returns leaves every session there is and   *)
(* every entry of the two maps as they are: no task is changed, cancelled  *)
(* or replaced and no stored device is overwritten; each address it adds   *)
(* was untracked, passes the test of find_otbeat_devices, and gets exactly *)
(* one new task.                                                           *)
(***************************************************************************)
C15_ScanLeavesTrackedAlone ==
    [][(main_pc = "scan" /\ main_pc' = "sleep") =>
         /\ \A t \in Spawned : tasks'[t] = tasks[t]
         /\ \A a \in DOMAIN connected_devices :
              a \in DOMAIN connected_devices' /\ connected_devices'[a] = connected_devices[a]
         /\ Len(sensor_tasks') >= Len(sensor_tasks)
         /\ SubSeq(sensor_tasks', 1, Len(sensor_tasks)) = sensor_tasks
         /\ Len(tasks') - Len(tasks) =
                Cardinality(DOMAIN connected_devices' \ DOMAIN connected_devices)
         /\ \A a \in DOMAIN connected_devices' \ DOMAIN connected_devices :
              /\ IsOTbeat(Devices[connected_devices'[a]])
              /\ Devices[connected_devices'[a]].address = a
              /\ \E i \in (Len(sensor_tasks) + 1)..Len(sensor_tasks') :
                   /\ sensor_tasks'[i].address = a
                   /\ sensor_tasks'[i].task \in (Len(tasks) + 1)..Len(tasks')
                   /\ tasks'[sensor_tasks'[i].task] = NewTask(connected_devices'[a])
      ]_vars

\* a scan has returned the address of the Active session again, and the session, its
\* map entries and its stored device are as they were; another peer has been added
C15_RescannedUntouched ==
    /\ rescanned
    /\ Len(tasks) = 2
    /\ tasks[1].device = 1 /\ tasks[1].pc = "sleep" /\ tasks[1].active
    /\ ~tasks[1].must_cancel
    /\ connected_devices[AddrA] = 1
    /\ sensor_tasks[1] = [address |-> AddrA, task |-> 1]
    /\ tasks[2].device = 2

(***************************************************************************)
(* C16.  Once run() is in its shutdown sequence no scan starts and no      *)
(* session is spawned; when run() leaves the sequence every session has    *)
(* ended or has had its cancellation requested; and when run() reports     *)
(* that all sensors are disconnected every session has ended with its zero *)
(* published and the tracked set is empty.                                 *)
(***************************************************************************)
C16_ShutdownStopsEverySession ==
    [][/\ (main_pc \in {"await", "done"})
          => (main_pc' \in {"await", "done"} /\ Len(tasks') = Len(tasks) /\ ~running')
       /\ (main_pc # "done" /\ main_pc' = "done")
          => \A t \in Spawned : ~Live(t)' \/ tasks'[t].must_cancel
       /\ (~Reported /\ Reported')
          => (/\ \A t \in Spawned : ~Live(t)' /\ tasks'[t].zeros = 1
              /\ sensor_tasks' = <<>>
              /\ DOMAIN connected_devices' = {})
      ]_vars

(***************************************************************************)
(* C17.  The scan loop of run() ends by the external stop and by nothing   *)
(* else: the only step that clears self.running is the interrupt, whatever *)
(* a scan gave (also when discover raised); no step of a session or of its *)
(* peer changes where run() is or touches another session; a scan that     *)
(* finds nothing new leaves the two maps as they are; and the inter-scan   *)
(* wait is left only for the next scan or by the interrupt.                *)
(***************************************************************************)
C17_OnlyExternalStopEndsLoop ==
    [][/\ (running /\ ~running') => Interrupt
       /\ \A t \in Spawned :
            (SessionStep(t) \/ PeerDrops(t) \/ TransportHangs(t))
               => (/\ main_pc' = main_pc /\ running' = running /\ sleep_i' = sleep_i
                   /\ \A u \in Spawned \ {t} : tasks'[u] = tasks[u])
       /\ (main_pc = "scan" /\ main_pc' = "sleep" /\ Len(tasks') = Len(tasks))
            => (/\ connected_devices' = connected_devices
                /\ sensor_tasks' = sensor_tasks
                /\ tasks' = tasks
                /\ running')
       /\ (main_pc = "sleep" /\ main_pc' # "sleep") => (main_pc' = "scan" \/ Interrupt)
      ]_vars

(***************************************************************************)
(* C18.  When the broker connection is closed run() has finished, the      *)
(* event loop is closed, every session has ended with its zero published,  *)
(* and no step that publishes can be taken any more.                       *)
(***************************************************************************)
PublishStep ==
    \E t \in TaskIds, ok \in BOOLEAN :
        \/ ConnectOk(t, ok)
        \/ ConnectFails(t, ok)
        \/ AexitReturns(t, ok)
        \/ Cancelled(t, ok)
        \/ \E data \in NotifyPayloads : Notify(t, data, ok)

C18_BrokerClosedLast ==
    mqtt_client = "closed" =>
        /\ main_pc = "done"
        /\ loop_state = "closed"
        /\ \A t \in Spawned : ~Live(t) /\ tasks[t].zeros = 1
        /\ ~ENABLED PublishStep

\* the broker connection is closed after a shutdown in which run() cancelled one
\* session and asyncio.run the other, and both published their zero
C18_ClosedAfterLastZero ==
    /\ mqtt_client = "closed"
    /\ Len(tasks) = 2
    /\ main_exc = "error"
    /\ tasks[2].result = "cancelled" /\ tasks[2].zeros = 1
    /\ last_published.kind = "zero" /\ last_published.task = 2

(***************************************************************************)
(* C19.  In every slice of the inter-scan wait the external stop can be    *)
(* delivered, and the step that delivers it starts the shutdown sequence   *)
(* at once: self.running is cleared, run() is in its finally block, the    *)
(* rest of the wait is not slept, no scan starts and no session is         *)
(* spawned.                                                                *)
(***************************************************************************)
C19_WaitInterruptible ==
    [][(main_pc = "sleep") =>
         /\ sleep_i \in 0..(RESCAN_INTERVAL - 1)
         /\ ENABLED Interrupt
         /\ (Interrupt \/ (running /\ ~running'))
            => (/\ ~running'
                /\ main_pc' \in {"await", "done"}
                /\ sleep_i' = sleep_i
                /\ Len(tasks') = Len(tasks)
                /\ \A t \in Spawned : ~Live(t)' \/ tasks'[t].must_cancel
                                              \/ main_pc' = "await" \/ main_exc' = "error")
      ]_vars

\* the stop came in the last slice of the wait with a session Active: run() went to its
\* finally block from there and has ended, no further scan was made
C19_StoppedInWait ==
    /\ main_exc = "cancelled"
    /\ sleep_i = RESCAN_INTERVAL - 1
    /\ main_pc = "done"
    /\ ~running
    /\ Len(tasks) = 1 /\ tasks[1].active /\ tasks[1].result = "cancelled"

(***************************************************************************)
(* C20.  In every state connected_devices and sensor_tasks have the same   *)
(* keys; each key is the address of the one task stored under it, which    *)
(* was spawned for the stored device and has not made its removal; and the *)
(* step in which a session makes its removal takes its own address, and    *)
(* nothing else, out of both maps.                                         *)
(***************************************************************************)
C20_MapsInStep ==
    [][/\ DOMAIN connected_devices' = TaskKeys(sensor_tasks')
       /\ \A i, j \in 1..Len(sensor_tasks') :
            sensor_tasks'[i].address = sensor_tasks'[j].address => i = j
       /\ \A i \in 1..Len(sensor_tasks') :
            LET t == sensor_tasks'[i].task
            IN  /\ t \in 1..Len(tasks')
                /\ Devices[tasks'[t].device].address = sensor_tasks'[i].address
                /\ connected_devices'[sensor_tasks'[i].address] = tasks'[t].device
                /\ tasks'[t].removed = 0
       /\ \A t \in Spawned :
            (tasks'[t].removed > tasks[t].removed)
               => (/\ AddressOf(t) \in DOMAIN connected_devices
                   /\ DOMAIN connected_devices' = DOMAIN connected_devices \ {AddressOf(t)}
                   /\ TaskKeys(sensor_tasks') = TaskKeys(sensor_tasks) \ {AddressOf(t)}
                   /\ \A a \in DOMAIN connected_devices' :
                        connected_devices'[a] = connected_devices[a]
                   /\ sensor_tasks' = TasksDel(sensor_tasks, AddressOf(t)))
      ]_vars

\* one session has made its removal while another is tracked and live
C20_OneRemovedOneTracked ==
    /\ Len(tasks) = 2
    /\ tasks[1].removed = 1
    /\ Live(2) /\ tasks[2].pc = "sleep"
    /\ AddressOf(1) # AddressOf(2)
    /\ DOMAIN connected_devices = {AddressOf(2)}
    /\ sensor_tasks = <<[address |-> AddressOf(2), task |-> 2]>>

====
